---- MODULE Spec2Model ----
(***************************************************************************)
(* fpreputils: the build descriptor (setup.py) and the package initializer *)
(* (fpreputils/__init__.py).                                               *)
(*                                                                         *)
(* File names and paths are sequences of one-character strings, so that    *)
(* glob's tests on them (first character, "/" separators, wildcard match)  *)
(* are computed as glob computes them.  Python identifiers and             *)
(* distribution names are plain strings.                                   *)
(***************************************************************************)
EXTENDS Naturals, Sequences, FiniteSets

VARIABLES
    fs,            \* the project directory: a set of [path, kind] entries
    dists,         \* installed distributions: a set of [name, version]
    b_pc,          \* setup.py: the line about to run
    bin_scripts,   \* setup.py: the module variable bin_scripts
    setup_calls,   \* setup.py: the keyword arguments of each setup() call
    imp_pc,        \* __init__.py: the line about to run
    bound,         \* __init__.py: the names bound in the package namespace
    lookup,        \* __init__.py: outcome of the call version("fpreputils")
    __version__,   \* __init__.py: value of the attribute __version__
    __all__,       \* __init__.py: value of the attribute __all__
    submodule,     \* __init__.py: state of the import of .fmriprep
    error          \* __init__.py: the exception the import ended with

vars == <<fs, dists, b_pc, bin_scripts, setup_calls,
          imp_pc, bound, lookup, __version__, __all__, submodule, error>>

build_vars == <<b_pc, bin_scripts, setup_calls>>
import_vars == <<imp_pc, bound, lookup, __version__, __all__, submodule, error>>

----------------------------------------------------------------------------
(* Bounds *)

\* the largest number of entries of the project directory
MaxEntries == 6

----------------------------------------------------------------------------
(* File names *)

BIN == <<"b", "i", "n">>
SHELL == <<"s", "h", "e", "l", "l">>
RUN_SH == <<"r", "u", "n", ".", "s", "h">>
CHECK_SH == <<"c", "h", "e", "c", "k", ".", "s", "h">>
DOT_X == <<".", "x">>
SUB == <<"s", "u", "b">>
X == <<"x">>
X_SH == <<"x", ".", "s", "h">>
PKG_DIR == <<"f", "p", "r", "e", "p", "u", "t", "i", "l", "s">>
INIT_PY == <<"_", "_", "i", "n", "i", "t", "_", "_", ".", "p", "y">>

\* the glob pattern of setup.py: "bin/*"
PATTERN == <<"b", "i", "n", "/", "*">>

File(p) == [path |-> p, kind |-> "file"]
Dir(p) == [path |-> p, kind |-> "dir"]

\* the entries a project directory is drawn from
Universe ==
    { Dir(<<BIN>>), File(<<BIN, RUN_SH>>), File(<<BIN, CHECK_SH>>),
      File(<<BIN, DOT_X>>), Dir(<<BIN, SUB>>), File(<<BIN, SUB, X>>),
      Dir(<<SHELL>>), File(<<SHELL, X_SH>>),
      Dir(<<PKG_DIR>>), File(<<PKG_DIR, INIT_PY>>) }

Front(s) == SubSeq(s, 1, Len(s) - 1)
Last(s) == s[Len(s)]
Range(s) == { s[i] : i \in 1..Len(s) }

\* every entry below the root lies in a directory of the tree
WellFormed(T) == \A e \in T : Len(e.path) > 1 => Dir(Front(e.path)) \in T

\* the lists a directory scan may return: the entries of S in any order
Orderings(S) ==
    { s \in [1..Cardinality(S) -> S] : Range(s) = S }

----------------------------------------------------------------------------
(* os.path and glob *)

Max(S) == CHOOSE m \in S : \A k \in S : k <= m

\* os.path.split: the text before and after the last "/"
SplitPath(p) ==
    LET I == { i \in 1..Len(p) : p[i] = "/" }
        k == IF I = {} THEN 0 ELSE Max(I)
    IN [dirname  |-> IF k = 0 THEN <<>> ELSE SubSeq(p, 1, k - 1),
        basename |-> SubSeq(p, k + 1, Len(p))]

\* a path string as its components
RECURSIVE Components(_)
Components(p) ==
    IF p = <<>> THEN <<>>
    ELSE LET sp == SplitPath(p)
         IN Components(sp.dirname) \o <<sp.basename>>

\* os.path.join(dirname, name)
Join(dirname, name) == dirname \o <<"/">> \o name

\* the path string of an entry
RECURSIVE PathStr(_)
PathStr(path) ==
    IF Len(path) = 1 THEN path[1]
    ELSE Join(PathStr(Front(path)), Last(path))

\* glob.has_magic
has_magic(s) == \E i \in 1..Len(s) : s[i] \in {"*", "?", "["}

\* glob._ishidden
_ishidden(name) == Len(name) > 0 /\ name[1] = "."

\* fnmatch on a POSIX system, for patterns of literals, "?" and "*"
RECURSIVE fnmatch(_, _)
fnmatch(name, pat) ==
    IF pat = <<>> THEN name = <<>>
    ELSE IF Head(pat) = "*"
         THEN fnmatch(name, Tail(pat))
              \/ (name # <<>> /\ fnmatch(Tail(name), pat))
    ELSE IF Head(pat) = "?"
         THEN name # <<>> /\ fnmatch(Tail(name), Tail(pat))
    ELSE name # <<>> /\ Head(name) = Head(pat)
         /\ fnmatch(Tail(name), Tail(pat))

\* glob._listdir: the names in a directory, nothing when it is no directory
_listdir(dirname, tree) ==
    IF Dir(Components(dirname)) \in tree
    THEN { Last(e.path) : e \in { f \in tree : Front(f.path) = Components(dirname) } }
    ELSE {}

\* _glob1 without the test on hidden names
_glob1_with_hidden(dirname, pattern, tree) ==
    { n \in _listdir(dirname, tree) : fnmatch(n, pattern) }

\* glob._glob1: the names in dirname matching the pattern; names that start
\* with a dot only when the pattern does
_glob1(dirname, pattern, tree) ==
    { n \in _listdir(dirname, tree) :
        (_ishidden(pattern) \/ ~_ishidden(n)) /\ fnmatch(n, pattern) }

\* glob.glob for a pattern whose directory part has no wildcard
glob(pathname, tree) ==
    LET sp == SplitPath(pathname)
    IN IF ~has_magic(pathname)
       THEN { q \in {pathname} : \E e \in tree : e.path = Components(pathname) }
       ELSE { Join(sp.dirname, n) : n \in _glob1(sp.dirname, sp.basename, tree) }

----------------------------------------------------------------------------
(* setuptools.find_packages and importlib.metadata.version *)

\* a directory that looks like a package: it holds __init__.py and its own
\* name has no dot
IsPackageDir(p, tree) ==
    /\ Dir(p) \in tree
    /\ File(p \o <<INIT_PY>>) \in tree
    /\ \A i \in 1..Len(Last(p)) : Last(p)[i] # "."

RECURSIVE Dotted(_)
Dotted(path) ==
    IF Len(path) = 1 THEN path[1]
    ELSE Dotted(Front(path)) \o <<".">> \o Last(path)

\* find_packages(): the package directories reached through package
\* directories, as dotted names
find_packages(tree) ==
    { Dotted(e.path) :
        e \in { f \in tree :
                  \A k \in 1..Len(f.path) : IsPackageDir(SubSeq(f.path, 1, k), tree) } }

\* importlib.metadata.version(distribution_name)
version(distribution_name, installed) ==
    IF \E d \in installed : d.name = distribution_name
    THEN [status |-> "returned",
          value  |-> (CHOOSE d \in installed : d.name = distribution_name).version]
    ELSE [status |-> "raised", value |-> "PackageNotFoundError"]

\* distributions of the environment that are not this project
OtherDists == { [name |-> "setuptools", version |-> "68.0"] }

\* the packaging commands setup.py is run with
Commands == {"install", "build"}

----------------------------------------------------------------------------
(* Initial state *)

Init ==
    /\ fs \in { T \in SUBSET Universe : WellFormed(T) /\ Cardinality(T) <= MaxEntries }
    /\ dists \in SUBSET OtherDists
    /\ b_pc = "line5"
    /\ bin_scripts = <<>>
    /\ setup_calls = <<>>
    /\ imp_pc = "line2"
    /\ bound = {}
    /\ lookup = [status |-> "pending", value |-> ""]
    /\ __version__ = ""
    /\ __all__ = <<>>
    /\ submodule = "not_started"
    /\ error = ""

----------------------------------------------------------------------------
(* setup.py *)

\* line 5: bin_scripts = glob.glob("bin/*")
GlobBin ==
    /\ b_pc = "line5"
    /\ \E listing \in Orderings(glob(PATTERN, fs)) : bin_scripts' = listing
    /\ b_pc' = "line7"
    /\ UNCHANGED <<fs, dists, setup_calls>>
    /\ UNCHANGED import_vars

\* the setup() call with a dependency declared
SetupArgsWithRequires(packages) ==
    [name                 |-> "fpreputils",
     version              |-> "0.1",
     packages             |-> packages,
     install_requires     |-> <<"numpy">>,
     include_package_data |-> TRUE,
     scripts              |-> bin_scripts]

\* the keyword arguments of the setup() call
SetupArgs(packages) ==
    [name                 |-> "fpreputils",
     version              |-> "0.1",
     packages             |-> packages,
     install_requires     |-> <<>>,
     include_package_data |-> TRUE,
     scripts              |-> bin_scripts]

\* what an install leaves in the environment: the distribution's metadata
Installed(args, installed) ==
    { d \in installed : d.name # args.name }
        \cup { [name |-> args.name, version |-> args.version] }

\* lines 7-14: the setup() call, under a packaging command
CallSetup ==
    /\ b_pc = "line7"
    /\ \E cmd \in Commands, packages \in Orderings(find_packages(fs)) :
          /\ setup_calls' = Append(setup_calls, SetupArgs(packages))
          /\ dists' = IF cmd = "install"
                      THEN Installed(SetupArgs(packages), dists)
                      ELSE dists
    /\ b_pc' = "done"
    /\ UNCHANGED <<fs, bin_scripts>>
    /\ UNCHANGED import_vars

----------------------------------------------------------------------------
(* fpreputils/__init__.py *)

\* line 2: from importlib.metadata import version
ImportVersionFunction ==
    /\ imp_pc = "line2"
    /\ bound' = bound \cup {"version"}
    /\ imp_pc' = "line4"
    /\ UNCHANGED <<lookup, __version__, __all__, submodule, error>>
    /\ UNCHANGED <<fs, dists>>
    /\ UNCHANGED build_vars

\* line 4 with a constant in place of the value the lookup returned
BindVersionHardCoded ==
    /\ imp_pc = "line4"
    /\ lookup' = version("fpreputils", dists)
    /\ IF lookup'.status = "returned"
       THEN /\ __version__' = "0.0.0"
            /\ bound' = bound \cup {"__version__"}
            /\ imp_pc' = "line7"
            /\ error' = error
       ELSE /\ imp_pc' = "failed"
            /\ error' = lookup'.value
            /\ UNCHANGED <<__version__, bound>>
    /\ UNCHANGED <<__all__, submodule>>
    /\ UNCHANGED <<fs, dists>>
    /\ UNCHANGED build_vars

\* line 4 inside try/except, with a fallback version
BindVersionWithFallback ==
    /\ imp_pc = "line4"
    /\ lookup' = version("fpreputils", dists)
    /\ __version__' = IF lookup'.status = "returned" THEN lookup'.value ELSE "unknown"
    /\ bound' = bound \cup {"__version__"}
    /\ imp_pc' = "line7"
    /\ UNCHANGED <<__all__, submodule, error>>
    /\ UNCHANGED <<fs, dists>>
    /\ UNCHANGED build_vars

\* line 4: __version__ = version("fpreputils"); an exception of the call
\* ends the import
BindVersion ==
    /\ imp_pc = "line4"
    /\ lookup' = version("fpreputils", dists)
    /\ IF lookup'.status = "returned"
       THEN /\ __version__' = lookup'.value
            /\ bound' = bound \cup {"__version__"}
            /\ imp_pc' = "line7"
            /\ error' = error
       ELSE /\ imp_pc' = "failed"
            /\ error' = lookup'.value
            /\ UNCHANGED <<__version__, bound>>
    /\ UNCHANGED <<__all__, submodule>>
    /\ UNCHANGED <<fs, dists>>
    /\ UNCHANGED build_vars

\* what running the submodule fpreputils.fmriprep can end with
SubmoduleOutcomes == {"imported", "raised"}

\* line 7 importing the submodule without binding its name
ImportSubmoduleUnbound ==
    /\ imp_pc = "line7"
    /\ \E outcome \in SubmoduleOutcomes :
          /\ submodule' = outcome
          /\ IF outcome = "imported"
             THEN /\ imp_pc' = "line9"
                  /\ error' = error
             ELSE /\ imp_pc' = "failed"
                  /\ error' = "ImportError"
    /\ UNCHANGED <<bound, lookup, __version__, __all__>>
    /\ UNCHANGED <<fs, dists>>
    /\ UNCHANGED build_vars

\* the submodule import placed above the version lookup
ImportSubmoduleFirst ==
    /\ \/ /\ imp_pc = "line4"
          /\ submodule = "not_started"
          /\ \E outcome \in SubmoduleOutcomes :
                /\ submodule' = outcome
                /\ IF outcome = "imported"
                   THEN /\ bound' = bound \cup {"fmriprep"}
                        /\ imp_pc' = "line4"
                        /\ error' = error
                   ELSE /\ imp_pc' = "failed"
                        /\ error' = "ImportError"
                        /\ bound' = bound
       \/ /\ imp_pc = "line7"
          /\ submodule = "imported"
          /\ imp_pc' = "line9"
          /\ UNCHANGED <<submodule, bound, error>>
    /\ UNCHANGED <<lookup, __version__, __all__>>
    /\ UNCHANGED <<fs, dists>>
    /\ UNCHANGED build_vars

\* line 7: from . import fmriprep
ImportSubmodule ==
    /\ imp_pc = "line7"
    /\ \E outcome \in SubmoduleOutcomes :
          /\ submodule' = outcome
          /\ IF outcome = "imported"
             THEN /\ bound' = bound \cup {"fmriprep"}
                  /\ imp_pc' = "line9"
                  /\ error' = error
             ELSE /\ imp_pc' = "failed"
                  /\ error' = "ImportError"
                  /\ bound' = bound
    /\ UNCHANGED <<lookup, __version__, __all__>>
    /\ UNCHANGED <<fs, dists>>
    /\ UNCHANGED build_vars

\* line 9 exporting __version__ too
BindAllWithVersion ==
    /\ imp_pc = "line9"
    /\ __all__' = <<"fmriprep", "__version__">>
    /\ bound' = bound \cup {"__all__"}
    /\ imp_pc' = "done"
    /\ UNCHANGED <<lookup, __version__, submodule, error>>
    /\ UNCHANGED <<fs, dists>>
    /\ UNCHANGED build_vars

\* line 9: __all__ = ["fmriprep"]
BindAll ==
    /\ imp_pc = "line9"
    /\ __all__' = <<"fmriprep">>
    /\ bound' = bound \cup {"__all__"}
    /\ imp_pc' = "done"
    /\ UNCHANGED <<lookup, __version__, submodule, error>>
    /\ UNCHANGED <<fs, dists>>
    /\ UNCHANGED build_vars

----------------------------------------------------------------------------

ImportNext == ImportVersionFunction \/ BindVersion \/ ImportSubmodule \/ BindAll

Next ==
    \/ GlobBin
    \/ CallSetup
    \/ ImportVersionFunction
    \/ BindVersion
    \/ ImportSubmodule
    \/ BindAll

Spec == Init /\ [][Next]_vars

----------------------------------------------------------------------------
(* Properties *)

\* the scripts keyword of the setup() call made
ScriptsPassed == Range(setup_calls[1].scripts)

\* the entries of the tree below the top-level directory d, at any depth
Under(d) == { e \in fs : Len(e.path) >= 2 /\ e.path[1] = d }

\* the entries of the tree directly in the top-level directory d
ChildrenOf(d) == { e \in fs : Len(e.path) = 2 /\ e.path[1] = d }

\* C1: for any contents of bin/, the scripts list passed to setup() is
\* exactly the set of files present under bin/: every file under bin/ is in
\* it and it holds nothing else.
C1_ScriptsAreFilesUnderBin ==
    b_pc = "done" =>
        ScriptsPassed = { PathStr(e.path) : e \in { f \in Under(BIN) : f.kind = "file" } }

C3_FmriprepBoundAfterImport ==
    imp_pc = "done" => ("fmriprep" \in bound /\ submodule = "imported")

C3_Witness == imp_pc = "done" /\ "fmriprep" \in bound

\* C4: if the metadata of fpreputils is not found when __version__ is
\* computed, the import fails with exactly the error the lookup raised: the
\* error is not caught, the lookup is not retried and no fallback version is
\* bound.
C4_LookupErrorPropagates ==
    /\ [][ (lookup.status = "pending" /\ lookup'.status # "pending"
              /\ ~ \E d \in dists : d.name = "fpreputils")
           => /\ lookup' = [status |-> "raised", value |-> "PackageNotFoundError"]
              /\ imp_pc' = "failed" ]_vars
    /\ [] ( lookup.status = "raised" =>
              /\ imp_pc = "failed"
              /\ error = lookup.value
              /\ "__version__" \notin bound
              /\ __version__ = ""
              /\ ~ ENABLED ImportNext )

C4_Witness ==
    /\ lookup.status = "raised"
    /\ imp_pc = "failed"
    /\ error = "PackageNotFoundError"

\* C5: setup() is called once, with name "fpreputils", version "0.1",
\* packages from find_packages(), an empty install_requires,
\* include_package_data true and scripts the list globbed from bin/; only
\* packages and scripts depend on the project directory.
C5_SetupCall ==
    /\ Len(setup_calls) <= 1
    /\ b_pc # "done" => setup_calls = <<>>
    /\ b_pc = "done" =>
          /\ Len(setup_calls) = 1
          /\ setup_calls[1].name = "fpreputils"
          /\ setup_calls[1].version = "0.1"
          /\ Range(setup_calls[1].packages) = find_packages(fs)
          /\ Len(setup_calls[1].packages) = Cardinality(find_packages(fs))
          /\ setup_calls[1].install_requires = <<>>
          /\ setup_calls[1].include_package_data = TRUE
          /\ setup_calls[1].scripts = bin_scripts
          /\ ScriptsPassed = glob(PATTERN, fs)
          /\ DOMAIN setup_calls[1] =
                {"name", "version", "packages", "install_requires",
                 "include_package_data", "scripts"}

C5_Witness ==
    /\ b_pc = "done"
    /\ setup_calls[1].packages = <<PKG_DIR>>
    /\ Len(setup_calls[1].scripts) = 2

\* C6: the scripts list passed to setup() holds every file of bin/ and
\* every file of shell/.
C6_ScriptsOfBinAndShell ==
    b_pc = "done" =>
        \A e \in ChildrenOf(BIN) \cup ChildrenOf(SHELL) :
            e.kind = "file" => PathStr(e.path) \in ScriptsPassed

\* C7: __all__ is exactly ["fmriprep"]; __version__ is an attribute of the
\* package and not a member of __all__.
C7_AllIsFmriprep ==
    "__all__" \in bound =>
        /\ __all__ = <<"fmriprep">>
        /\ "__version__" \in bound
        /\ "__version__" \notin Range(__all__)

C7_Witness == imp_pc = "done" /\ "__all__" \in bound /\ Len(__all__) = 1

\* C8: the version lookup happens strictly before the submodule import: if
\* the lookup fails, the submodule import is never started and none of
\* __version__, fmriprep, __all__ is bound; if the submodule import fails,
\* __version__ is bound and __all__ is not.
C8_LookupBeforeSubmodule ==
    /\ submodule # "not_started" => lookup.status = "returned"
    /\ lookup.status = "raised" =>
          /\ submodule = "not_started"
          /\ bound \cap {"__version__", "fmriprep", "__all__"} = {}
    /\ submodule = "raised" =>
          /\ imp_pc = "failed"
          /\ "__version__" \in bound
          /\ "__all__" \notin bound

C8_Witness ==
    /\ submodule = "raised"
    /\ imp_pc = "failed"
    /\ "__version__" \in bound

====
